---- MODULE Spec2Model ----
(***************************************************************************)
(* PythonServerManager of pth-viewer (PythonServerManager.ts): one worker  *)
(* process, a FIFO request queue drained by processQueue, promise reuse    *)
(* for concurrent loads, and deferred interpreter switches.                *)
(*                                                                         *)
(* One action is one turn of the Node.js event loop: the handler of an     *)
(* external event (a caller's call, a child-process event, an HTTP         *)
(* response, a timer) together with every promise continuation it makes    *)
(* runnable, because the microtask queue is emptied before the next event  *)
(* is dispatched.  The manager's methods are operators from a state record *)
(* to a state record, so that a handler can run them one after another as  *)
(* the code does.                                                          *)
(***************************************************************************)
EXTENDS Integers, Sequences, FiniteSets, TLC

\* ---- bounds of the model ------------------------------------------------
MaxRequests == 4      \* sendRequest calls in one behaviour
MaxSwitches == 2      \* changePythonInterpreter calls in one behaviour
MaxCalls == 4         \* calls of either kind in one behaviour
MaxUserActions == 4   \* editor commands and file changes in one behaviour
MaxMtime == 2         \* times a checkpoint file is rewritten, plus one
MaxFaults == 1        \* abnormal events in one behaviour: a worker that crashes,
                      \* fails to spawn, prints a noisy handshake or answers
                      \* anything but a plain result, a failing path lookup

\* ---- values ---------------------------------------------------------------
Null == 0             \* null for serverProcess and port
NaN == -1             \* parseInt of a non-numeric string
NullPath == <<>>      \* null for currentPythonPath / pendingPythonPath

\* lastCall when the step was no sendRequest call.
NoCall ==
    [ call |-> [endpoint |-> "", file_path |-> << >>, force_local |-> FALSE],
      promise |-> 0, created |-> FALSE ]

\* lastExit when the step delivered no 'close'.
NoExit == [ proc |-> 0, code |-> 0, state |-> "", stderr |-> FALSE, waiter |-> 0 ]

\* restarts.last before the first restartServer.
NoRestart == [ queueLen |-> 0, nRunning |-> 0, nLoading |-> 0 ]

\* A child process whose 'close' has been delivered.
Closed == [ env |-> << >>, state |-> "closed", killed |-> FALSE, stderr |-> FALSE ]

Truthy(x) == x # Null /\ x # NaN

\* Interpreter paths, as sequences of path segments.
PythonFallback == <<"python">>
PythonPaths ==
    { <<"python">>, <<"e1", "python">>, <<"e1", ".", "python">>,
      <<"gone", "python">> }

\* File paths handed to sendRequest in payload.file_path.
FilePaths == { <<"a.pth">>, <<"b.pth">> }

Endpoints == {"/load", "/release", "/inspect"}

\* What the worker can answer to one POST: status 200 with a result, status
\* 200 with a JSON body holding an error field, a non-200 status, and status
\* 200 with a body that is not JSON.
Responses == {"ok", "apperror", "status500", "badjson"}

\* The tokens of one standard-output chunk (after trim()).
Chunks ==
    { <<"SERVER_STARTED", ":", "PORT">>,
      <<"INFO", "SERVER_STARTED", ":", "PORT">>,
      <<"INFO", ":", "SERVER_STARTED", ":", "PORT">> }

\* The port the operating system gave worker p.
PortOf(p) == 5000 + p

\* ---- values of the editor provider --------------------------------------
\* The tensors of a checkpoint file, by key; both files have a tensor "k1".
TensorKeys(file) == IF file = <<"a.pth">> THEN {"k1", "k2"} ELSE {"k1"}

\* A node without __pth_overview_pth__.stats.
NoStats == [ file |-> << >>, key |-> "" ]

\* The statistics the worker computes for tensor key of file.
StatsOf(file, key) == [ file |-> file, key |-> key ]

\* The object {} (line 224, line 298): it has no data.
NoTree ==
    [ file |-> << >>, local |-> FALSE, mtime |-> 0, stats |-> [k \in {} |-> NoStats] ]

\* The structure the worker returns for /load of a file it reads with the
\* given modification time, in the given mode: no node has statistics yet.
TreeOf(file, local, mtime) ==
    [ file |-> file, local |-> local, mtime |-> mtime,
      stats |-> [k \in TensorKeys(file) |-> NoStats] ]

\* this.cacheHash and this.cacheFilePath before the first load ('').
NoHash == [ file |-> << >>, mtime |-> 0, local |-> FALSE ]
NoCachePath == [ dir |-> "", name |-> NoHash ]

\* The cache directory before anything was stored.
NoFiles == [x \in {} |-> NoTree]

\* webview.html of a panel: nothing yet, the spinner, the tree page, the
\* parse-error page, the time-out page, the environment-error page.
NoView == [ kind |-> "none", tree |-> NoTree, env |-> << >> ]
View(kind, tree, env) == [ kind |-> kind, tree |-> tree, env |-> env ]

\* A showData message (lines 464, 478, 494, 496, 527).
Message(doc, id, data, error) == [ doc |-> doc, id |-> id, data |-> data, error |-> error ]

\* ---- state ----------------------------------------------------------------
VARIABLES
    serverProcess,      \* this.serverProcess: a process id or Null
    port,               \* this.port: a port, NaN or Null
    isStarting,         \* this.isStarting
    isProcessingQueue,  \* this.isProcessingQueue
    currentPythonPath,  \* this.currentPythonPath
    pendingPythonPath,  \* this.pendingPythonPath
    requestQueue,       \* this.requestQueue: sequence of QueueTask
    loadingPromises,    \* this.loadingPromises: requestKey -> promise
    procs,              \* the child processes spawned so far
    running,            \* the task.run() calls that have not returned yet
    promises,           \* the taskPromise of every task created
    nCalls,             \* history: number of sendRequest calls
    lastCall,           \* the sendRequest call this step made and the promise
                        \* it returned; NoCall after any other step
    lastExit,           \* the 'close' this step delivered: the process, its exit
                        \* code, what it was and had printed before, and the task
                        \* that waited for its start (0: none); NoExit otherwise
    started,            \* history: task ids in the order their run began
    superseded,         \* history: release tasks queued when a load of their file came
    deferredLoads,      \* history: the load tasks that were queued or running when
                        \* the switch now pending was deferred
    nSwitches,          \* history: number of changePythonInterpreter calls
    lastRequested,      \* history: argument of the latest changePythonInterpreter
    faults,             \* history: number of abnormal events
    restarts,           \* history: number of restartServer calls, and what the
                        \* latest one found on entry
    editorFilePath,     \* PthEditorProvider.filePath
    editorForceLocal,   \* PthEditorProvider.forceLocal
    cacheJson,          \* PthEditorProvider.cacheJson
    cacheFilePath,      \* PthEditorProvider.cacheFilePath
    cacheHash,          \* PthEditorProvider.cacheHash
    cacheStore,         \* the files of <globalStorage>/cache: path -> content
    fileStat,           \* mtimeMs/size of each checkpoint file
    panels,             \* webview.html of each document's panel
    awaiting,           \* the provider's calls suspended at an await of
                        \* sendRequest, in the order they suspended
    posted,             \* the showData messages this step posted
    nUser               \* history: number of editor commands and file changes

vars == << serverProcess, port, isStarting, isProcessingQueue, currentPythonPath,
           pendingPythonPath, requestQueue, loadingPromises, procs, running,
           promises, nCalls, lastCall, lastExit, started, superseded, nSwitches,
           lastRequested, faults, restarts, deferredLoads, editorFilePath,
           editorForceLocal, cacheJson, cacheFilePath, cacheHash, cacheStore,
           fileStat, panels, awaiting, posted, nUser >>

St ==
    [ serverProcess |-> serverProcess, port |-> port, isStarting |-> isStarting,
      isProcessingQueue |-> isProcessingQueue,
      currentPythonPath |-> currentPythonPath,
      pendingPythonPath |-> pendingPythonPath, requestQueue |-> requestQueue,
      loadingPromises |-> loadingPromises, procs |-> procs, running |-> running,
      promises |-> promises, nCalls |-> nCalls, lastCall |-> NoCall,
      lastExit |-> NoExit, started |-> started,
      superseded |-> superseded, nSwitches |-> nSwitches,
      lastRequested |-> lastRequested, restarts |-> restarts, faults |-> faults,
      deferredLoads |-> deferredLoads, filePath |-> editorFilePath,
      forceLocal |-> editorForceLocal, cacheJson |-> cacheJson,
      cacheFilePath |-> cacheFilePath, cacheHash |-> cacheHash,
      cacheStore |-> cacheStore, fileStat |-> fileStat, panels |-> panels,
      awaiting |-> awaiting, posted |-> << >>, nUser |-> nUser ]

\* The microtasks a step leaves behind run before the step ends.
RECURSIVE Settle(_)

\* The state record becomes the next state.
Assign(s) ==
    /\ editorFilePath' = s.filePath
    /\ editorForceLocal' = s.forceLocal
    /\ cacheJson' = s.cacheJson
    /\ cacheFilePath' = s.cacheFilePath
    /\ cacheHash' = s.cacheHash
    /\ cacheStore' = s.cacheStore
    /\ fileStat' = s.fileStat
    /\ panels' = s.panels
    /\ awaiting' = s.awaiting
    /\ posted' = s.posted
    /\ nUser' = s.nUser
    /\ serverProcess' = s.serverProcess
    /\ port' = s.port
    /\ isStarting' = s.isStarting
    /\ isProcessingQueue' = s.isProcessingQueue
    /\ currentPythonPath' = s.currentPythonPath
    /\ pendingPythonPath' = s.pendingPythonPath
    /\ requestQueue' = s.requestQueue
    /\ loadingPromises' = s.loadingPromises
    /\ procs' = s.procs
    /\ running' = s.running
    /\ promises' = s.promises
    /\ nCalls' = s.nCalls
    /\ lastCall' = s.lastCall
    /\ lastExit' = s.lastExit
    /\ started' = s.started
    /\ superseded' = s.superseded
    /\ nSwitches' = s.nSwitches
    /\ lastRequested' = s.lastRequested
    /\ restarts' = s.restarts
    /\ faults' = s.faults
    /\ deferredLoads' = s.deferredLoads

Apply(s) == Assign(Settle(s))

Init ==
    /\ serverProcess = Null
    /\ port = Null
    /\ isStarting = FALSE
    /\ isProcessingQueue = FALSE
    /\ currentPythonPath = NullPath
    /\ pendingPythonPath = NullPath
    /\ requestQueue = <<>>
    /\ loadingPromises = <<>>
    /\ procs = <<>>
    /\ running = {}
    /\ promises = <<>>
    /\ nCalls = 0
    /\ lastCall = NoCall
    /\ lastExit = NoExit
    /\ started = <<>>
    /\ superseded = {}
    /\ nSwitches = 0
    /\ lastRequested = NullPath
    /\ restarts = [n |-> 0, last |-> NoRestart]
    /\ faults = 0
    /\ deferredLoads = {}
    /\ editorFilePath = << >>
    /\ editorForceLocal = FALSE
    /\ cacheJson = NoTree
    /\ cacheFilePath = NoCachePath
    /\ cacheHash = NoHash
    /\ cacheStore = NoFiles
    /\ fileStat = [f \in FilePaths |-> 1]
    /\ panels = [d \in FilePaths |-> NoView]
    /\ awaiting = << >>
    /\ posted = << >>
    /\ nUser = 0

\* ---- path helpers ---------------------------------------------------------
NotDot(seg) == seg # "."

\* path.normalize: drops the "." segments.
Normalize(p) == SelectSeq(p, NotDot)

\* String.prototype.toLowerCase on one segment.
ToLowerCase(seg) == IF seg = "A.pth" THEN "a.pth" ELSE seg

getFileKey(filePath) ==
    [i \in DOMAIN Normalize(filePath) |-> ToLowerCase(Normalize(filePath)[i])]

\* fs.existsSync(pythonExe)
ExistsSync(pythonExe) == pythonExe[1] # "gone"

\* ---- Map and Array helpers -------------------------------------------------
MapSet(m, k, v) == [x \in DOMAIN m \cup {k} |-> IF x = k THEN v ELSE m[x]]
MapDelete(m, k) == [x \in DOMAIN m \ {k} |-> m[x]]

\* unshift where push was meant.
QueueUnshift(q, task) == << task >> \o q

\* Array.prototype.push
QueuePush(q, task) == Append(q, task)

\* Array.prototype.splice(i, 1)
QueueSplice(q, i) == [j \in 1..(Len(q) - 1) |-> IF j < i THEN q[j] ELSE q[j + 1]]

\* findIndex(t => t.type === 'release' && t.fileKey === resourceKey); 0 for -1
FindRelease(q, resourceKey) ==
    LET hits == {i \in DOMAIN q : q[i].type = "release" /\ q[i].fileKey = resourceKey}
    IN IF hits = {} THEN 0 ELSE CHOOSE i \in hits : \A j \in hits : i <= j

\* ---- the handshake line (stdout handler, lines 454-463) -------------------
\* str.includes("SERVER_STARTED:")
IncludesMarker(chunk) ==
    \E i \in 1..(Len(chunk) - 1) : chunk[i] = "SERVER_STARTED" /\ chunk[i + 1] = ":"

\* str.split(':')
RECURSIVE Split(_)
Split(chunk) ==
    LET colons == {i \in DOMAIN chunk : chunk[i] = ":"}
    IN IF colons = {} THEN << chunk >>
       ELSE LET i == CHOOSE c \in colons : \A d \in colons : c <= d
            IN << SubSeq(chunk, 1, i - 1) >> \o Split(SubSeq(chunk, i + 1, Len(chunk)))

\* parseInt(part) for a chunk written by worker p: the number a part starts
\* with, NaN when it starts with anything else or is undefined.
ParseInt(parts, k, p) ==
    IF k <= Len(parts) /\ parts[k] # <<>> /\ parts[k][1] = "PORT"
    THEN PortOf(p) ELSE NaN

\* ---- sendRequest's keys (lines 503-513) -----------------------------------
\* The request key as it was before force_local was made part of it.
RequestKeyNoMode(endpoint, resourceKey, forceLocal) == << resourceKey >>

RequestKey(endpoint, resourceKey, forceLocal) ==
    IF endpoint = "/load"
    THEN << resourceKey, IF forceLocal THEN "true" ELSE "false" >>
    ELSE << resourceKey >>

TaskType(endpoint) ==
    IF endpoint = "/load" THEN "load"
    ELSE IF endpoint = "/release" THEN "release" ELSE "other"

\* ---- ensureServerStarted (lines 399-496) ----------------------------------
\* Lines 429-452: the existence check and cp.spawn.  The quotes that line 430
\* strips do not occur in PythonPaths.
SpawnWorker(s) ==
    LET pythonExe == s.currentPythonPath
        p == Len(s.procs) + 1
    IN IF ~ExistsSync(pythonExe) /\ pythonExe # PythonFallback
       THEN [ st |-> [s EXCEPT !.isStarting = FALSE],
              outcome |-> "throw", value |-> Null ]
       ELSE [ st |-> [s EXCEPT !.procs = Append(@, [ env |-> pythonExe,
                                                      state |-> "starting",
                                                      killed |-> FALSE,
                                                      stderr |-> FALSE ]),
                               !.serverProcess = p],
              outcome |-> "spawned", value |-> p ]

\* The part of ensureServerStarted that runs before it first waits.
EnsureServerStarted(s) ==
    IF s.serverProcess # Null /\ Truthy(s.port)
    THEN [ st |-> s, outcome |-> "port", value |-> s.port ]
    ELSE IF s.isStarting
    THEN [ st |-> s, outcome |-> "poll", value |-> Null ]
    ELSE LET s1 == [s EXCEPT !.isStarting = TRUE]
         IN IF s1.currentPythonPath = NullPath
            THEN [ st |-> s1, outcome |-> "getPath", value |-> Null ]
            ELSE SpawnWorker(s1)

\* ---- restartServer (lines 373-394) ----------------------------------------
\* kill() reaches a process that is still there.
Kill(ps, p) ==
    IF p # Null /\ ps[p].state \in {"starting", "ready"}
    THEN [ps EXCEPT ![p].killed = TRUE] ELSE ps

\* restartServer as it was before it became lazy: it starts the new worker.
RestartAndSpawn(s, pythonPath) ==
    LET s1 == IF s.serverProcess # Null
              THEN [s EXCEPT !.procs = Kill(@, s.serverProcess),
                             !.serverProcess = Null,
                             !.port = Null]
              ELSE s
        s2 == [s1 EXCEPT !.currentPythonPath = pythonPath,
                         !.pendingPythonPath = NullPath,
                         !.isStarting = TRUE,
                         !.loadingPromises = << >>,
                         !.requestQueue = << >>,
                         !.deferredLoads = {},
                         !.restarts = [n |-> @.n + 1,
                                       last |-> [ queueLen |-> Len(s.requestQueue),
                                                  nRunning |-> Cardinality(s.running),
                                                  nLoading |-> Cardinality(DOMAIN s.loadingPromises) ]]]
    IN SpawnWorker(s2).st

\* restartServer without line 382: the handle of the killed worker is kept.
RestartKeepHandle(s, pythonPath) ==
    LET entry == [ queueLen |-> Len(s.requestQueue),
                   nRunning |-> Cardinality(s.running),
                   nLoading |-> Cardinality(DOMAIN s.loadingPromises) ]
        s1 == IF s.serverProcess # Null
              THEN [s EXCEPT !.procs = Kill(@, s.serverProcess),
                             !.port = Null]
              ELSE s
    IN [s1 EXCEPT !.currentPythonPath = pythonPath,
                  !.pendingPythonPath = NullPath,
                  !.isStarting = FALSE,
                  !.loadingPromises = << >>,
                  !.requestQueue = << >>,
                  !.deferredLoads = {},
                  !.restarts = [n |-> @.n + 1, last |-> entry]]

RestartServer(s, pythonPath) ==
    LET entry == [ queueLen |-> Len(s.requestQueue),
                   nRunning |-> Cardinality(s.running),
                   nLoading |-> Cardinality(DOMAIN s.loadingPromises) ]
        s1 == IF s.serverProcess # Null
              THEN [s EXCEPT !.procs = Kill(@, s.serverProcess),
                             !.serverProcess = Null,
                             !.port = Null]
              ELSE s
    IN [s1 EXCEPT !.currentPythonPath = pythonPath,
                  !.pendingPythonPath = NullPath,
                  !.isStarting = FALSE,
                  !.loadingPromises = << >>,
                  !.requestQueue = << >>,
                  !.deferredLoads = {},
                  !.restarts = [n |-> @.n + 1, last |-> entry]]

\* ---- task.run and processQueue (lines 555-570, 589-611) -------------------
Exec(task, pc, proc, reqPort) ==
    [ task |-> task, pc |-> pc, proc |-> proc, port |-> reqPort ]

\* doHttpRequest (lines 616-655) up to req.end(): the request is on its way.
DoHttpRequest(s, task, reqPort) ==
    [s EXCEPT !.running = @ \cup {Exec(task, "http", Null, reqPort)}]

RECURSIVE ProcessLoop(_), Run(_, _), Complete(_, _, _, _)

\* The end of a task in a processQueue that runs one task per call (an `if`
\* where line 593 has `while`).
CompleteEndsDrain(s, task, how, value) ==
    LET s1 == [s EXCEPT !.promises[task.id] =
                  IF @.state = "pending" THEN [state |-> how, value |-> value] ELSE @]
        s2 == IF task.endpoint = "/load"
              THEN [s1 EXCEPT !.loadingPromises = MapDelete(@, task.requestKey)]
              ELSE s1
    IN [s2 EXCEPT !.isProcessingQueue = FALSE]

\* The end of task.run: resolve or reject (lines 560-562), then the finally
\* block (563-569), then the drain loop that awaited it goes on.
Complete(s, task, how, value) ==
    LET s1 == [s EXCEPT !.promises[task.id] =
                  IF @.state = "pending" THEN [state |-> how, value |-> value] ELSE @]
        s2 == IF task.endpoint = "/load"
              THEN [s1 EXCEPT !.loadingPromises = MapDelete(@, task.requestKey)]
              ELSE s1
    IN ProcessLoop(s2)

\* task.run up to its first wait.
Run(s, task) ==
    LET r == EnsureServerStarted([s EXCEPT !.started = Append(@, task.id)])
    IN CASE r.outcome = "port" -> DoHttpRequest(r.st, task, r.value)
         [] r.outcome = "throw" ->
                \* the catch block of run (line 561) is a microtask of its own
                [r.st EXCEPT !.running = @ \cup {Exec(task, "thrown", Null, Null)}]
         [] r.outcome = "spawned" ->
                [r.st EXCEPT !.running = @ \cup {Exec(task, "awaitStart", r.value, Null)}]
         [] r.outcome = "poll" ->
                [r.st EXCEPT !.running = @ \cup {Exec(task, "polling", Null, Null)}]
         [] r.outcome = "getPath" ->
                [r.st EXCEPT !.running = @ \cup {Exec(task, "getPath", Null, Null)}]

\* processQueue from the loop test on (lines 593-610).
ProcessLoop(s) ==
    IF Len(s.requestQueue) > 0
    THEN Run([s EXCEPT !.requestQueue = Tail(@)], Head(s.requestQueue))
    ELSE LET s1 == [s EXCEPT !.isProcessingQueue = FALSE]
         IN IF s1.pendingPythonPath # NullPath
            THEN RestartServer([s1 EXCEPT !.pendingPythonPath = NullPath],
                               s1.pendingPythonPath)
            ELSE s1

\* processQueue without its re-entrancy guard (line 590).
ProcessQueueNoGuard(s) == ProcessLoop([s EXCEPT !.isProcessingQueue = TRUE])

ProcessQueue(s) ==
    IF s.isProcessingQueue THEN s
    ELSE ProcessLoop([s EXCEPT !.isProcessingQueue = TRUE])

\* ---- sendRequest (lines 501-584) ------------------------------------------
\* Lines 522-527: the first queued release of this file is taken out.
CancelRelease(s, resourceKey) ==
    LET releaseTaskIndex == FindRelease(s.requestQueue, resourceKey)
        queued == { s.requestQueue[i].id : i \in
                      { j \in DOMAIN s.requestQueue :
                          /\ s.requestQueue[j].type = "release"
                          /\ s.requestQueue[j].fileKey = resourceKey } }
        s1 == [s EXCEPT !.superseded = @ \cup queued]
    IN IF releaseTaskIndex # 0
       THEN [s1 EXCEPT !.requestQueue = QueueSplice(@, releaseTaskIndex)]
       ELSE s1

\* The promise executor runs at once: the task is pushed and processQueue runs
\* up to its first wait before loadingPromises.set (line 579).  Neither that
\* first part nor what follows it in the same turn reads the map before the
\* set, and the finally block of a task that fails without waiting runs after
\* the set, so the set is placed first here.
SendRequest(s, endpoint, payload) ==
    LET resourceKey == getFileKey(payload.file_path)
        requestKey == RequestKey(endpoint, resourceKey, payload.force_local)
        sA == IF endpoint = "/load" THEN CancelRelease(s, resourceKey) ELSE s
        call == [ endpoint |-> endpoint, file_path |-> payload.file_path,
                  force_local |-> payload.force_local ]
    IN IF endpoint = "/load" /\ requestKey \in DOMAIN sA.loadingPromises
       THEN [sA EXCEPT !.nCalls = @ + 1, !.lastCall =
                [ call |-> call, promise |-> sA.loadingPromises[requestKey],
                  created |-> FALSE ]]
       ELSE LET id == Len(sA.promises) + 1
                taskObj == [ id |-> id, type |-> TaskType(endpoint),
                             fileKey |-> resourceKey, requestKey |-> requestKey,
                             endpoint |-> endpoint, payload |-> payload ]
                s1 == [sA EXCEPT
                         !.promises = Append(@, [state |-> "pending", value |-> ""]),
                         !.requestQueue = QueuePush(@, taskObj),
                         !.nCalls = @ + 1,
                         !.lastCall = [ call |-> call, promise |-> id,
                                               created |-> TRUE ]]
                s2 == IF endpoint = "/load"
                      THEN [s1 EXCEPT !.loadingPromises = MapSet(@, requestKey, id)]
                      ELSE s1
            IN ProcessQueue(s2)

\* ---- changePythonInterpreter (lines 351-368) ------------------------------
\* The load tasks that are queued or whose run has not returned.
PendingLoads(s) ==
    { s.requestQueue[i].id : i \in { j \in DOMAIN s.requestQueue :
                                       s.requestQueue[j].type = "load" } }
      \cup { e.task.id : e \in { x \in s.running : x.task.type = "load" } }

\* changePythonInterpreter restarting at once, whatever the queue holds.
ChangeWithoutDeferral(s, newPath) ==
    LET normalizedNew == Normalize(newPath)
        normalizedCurrent == IF s.currentPythonPath # NullPath
                             THEN Normalize(s.currentPythonPath) ELSE NullPath
        s0 == [s EXCEPT !.nSwitches = @ + 1, !.lastRequested = newPath]
    IN IF normalizedNew = normalizedCurrent /\ s0.serverProcess # Null
       THEN s0
       ELSE RestartServer(s0, newPath)

\* changePythonInterpreter that records the new path at once when it defers
\* the restart.
ChangeRecordsPathAtOnce(s, newPath) ==
    LET normalizedNew == Normalize(newPath)
        normalizedCurrent == IF s.currentPythonPath # NullPath
                             THEN Normalize(s.currentPythonPath) ELSE NullPath
        s0 == [s EXCEPT !.nSwitches = @ + 1, !.lastRequested = newPath]
    IN IF normalizedNew = normalizedCurrent /\ s0.serverProcess # Null
       THEN s0
       ELSE IF s0.isProcessingQueue \/ Len(s0.requestQueue) > 0
       THEN [s0 EXCEPT !.pendingPythonPath = newPath,
                       !.currentPythonPath = newPath,
                       !.deferredLoads = PendingLoads(s0)]
       ELSE RestartServer(s0, newPath)

\* changePythonInterpreter whose idle test (line 361) looks at the queue only.
ChangeDefersOnQueueOnly(s, newPath) ==
    LET normalizedNew == Normalize(newPath)
        normalizedCurrent == IF s.currentPythonPath # NullPath
                             THEN Normalize(s.currentPythonPath) ELSE NullPath
        s0 == [s EXCEPT !.nSwitches = @ + 1, !.lastRequested = newPath]
    IN IF normalizedNew = normalizedCurrent /\ s0.serverProcess # Null
       THEN s0
       ELSE IF Len(s0.requestQueue) > 0
       THEN [s0 EXCEPT !.pendingPythonPath = newPath,
                       !.deferredLoads = PendingLoads(s0)]
       ELSE RestartServer(s0, newPath)

ChangePythonInterpreter(s, newPath) ==
    LET normalizedNew == Normalize(newPath)
        normalizedCurrent == IF s.currentPythonPath # NullPath
                             THEN Normalize(s.currentPythonPath) ELSE NullPath
        s0 == [s EXCEPT !.nSwitches = @ + 1, !.lastRequested = newPath]
    IN IF normalizedNew = normalizedCurrent /\ s0.serverProcess # Null
       THEN s0
       ELSE IF s0.isProcessingQueue \/ Len(s0.requestQueue) > 0
       THEN [s0 EXCEPT !.pendingPythonPath = newPath,
                       !.deferredLoads = PendingLoads(s0)]
       ELSE RestartServer(s0, newPath)

\* getInterpreterPath (lines 343-345)
getInterpreterPath(s) ==
    IF s.currentPythonPath # NullPath THEN s.currentPythonPath ELSE << "Unknown" >>

\* ---- the event handlers ---------------------------------------------------
\* The run that waits for worker p's start promise (the one that spawned p).
Waiting(s, p) == { e \in s.running : e.pc = "awaitStart" /\ e.proc = p }

\* A worker that has printed its handshake listens on its port until it exits.
Listening(reqPort) ==
    \E p \in DOMAIN procs : procs[p].state = "ready" /\ PortOf(p) = reqPort

\* stdout 'data' (lines 454-463): a chunk holding the marker.
StdoutHandler(s, p, chunk) ==
    LET parts == Split(chunk)
        newPort == ParseInt(parts, 2, p)
        s1 == [s EXCEPT !.port = newPort, !.isStarting = FALSE]
        w == Waiting(s1, p)
    IN IF ~IncludesMarker(chunk) THEN s
       ELSE IF w = {} THEN s1
       ELSE LET e == CHOOSE x \in w : TRUE
            IN DoHttpRequest([s1 EXCEPT !.running = @ \ {e}], e.task, newPort)

\* The close handler without line 477.
CloseHandlerKeepStarting(s, p, code) ==
    LET s1 == [s EXCEPT !.serverProcess = Null,
                        !.port = Null,
                        !.loadingPromises = << >>,
                        !.requestQueue = << >>]
        w == Waiting(s1, p)
        errorMsg == IF s.procs[p].stderr THEN "startupStderr"
                    ELSE "Process exited with code"
    IN IF code # 0 /\ w # {}
       THEN LET e == CHOOSE x \in w : TRUE
            IN Complete([s1 EXCEPT !.running = @ \ {e}], e.task, "rejected", errorMsg)
       ELSE s1

\* The close handler without lines 475-476.
CloseHandlerKeepPort(s, p, code) ==
    LET s1 == [s EXCEPT !.isStarting = FALSE,
                        !.loadingPromises = << >>,
                        !.requestQueue = << >>]
        w == Waiting(s1, p)
        errorMsg == IF s.procs[p].stderr THEN "startupStderr"
                    ELSE "Process exited with code"
    IN IF code # 0 /\ w # {}
       THEN LET e == CHOOSE x \in w : TRUE
            IN Complete([s1 EXCEPT !.running = @ \ {e}], e.task, "rejected", errorMsg)
       ELSE s1

\* 'close' (lines 473-489)
CloseHandler(s, p, code) ==
    LET s1 == [s EXCEPT !.serverProcess = Null,
                        !.port = Null,
                        !.isStarting = FALSE,
                        !.loadingPromises = << >>,
                        !.requestQueue = << >>]
        w == Waiting(s1, p)
        errorMsg == IF s.procs[p].stderr THEN "startupStderr"
                    ELSE "Process exited with code"
    IN IF code # 0 /\ w # {}
       THEN LET e == CHOOSE x \in w : TRUE
            IN Complete([s1 EXCEPT !.running = @ \ {e}], e.task, "rejected", errorMsg)
       ELSE s1

\* 'error' (lines 491-494)
ErrorHandler(s, p) ==
    LET s1 == [s EXCEPT !.isStarting = FALSE]
        w == Waiting(s1, p)
    IN IF w # {}
       THEN LET e == CHOOSE x \in w : TRUE
            IN Complete([s1 EXCEPT !.running = @ \ {e}], e.task, "rejected", "spawn error")
       ELSE s1

\* res 'end' treating a JSON body with an error field as a failed request.
ResponseHandlerRejectsErrors(s, e, resp) ==
    LET s1 == [s EXCEPT !.running = @ \ {e}]
    IN CASE resp = "status500" -> Complete(s1, e.task, "rejected", "Server Error")
         [] resp = "badjson" -> Complete(s1, e.task, "rejected", "SyntaxError")
         [] resp = "apperror" -> Complete(s1, e.task, "rejected", "Server Error")
         [] OTHER -> Complete(s1, e.task, "resolved", resp)

\* res 'end' (lines 630-642)
ResponseHandler(s, e, resp) ==
    LET s1 == [s EXCEPT !.running = @ \ {e}]
    IN CASE resp = "status500" -> Complete(s1, e.task, "rejected", "Server Error")
         [] resp = "badjson" -> Complete(s1, e.task, "rejected", "SyntaxError")
         [] OTHER -> Complete(s1, e.task, "resolved", resp)

\* The exit code 'close' reports: a failed spawn reports a negative errno, a
\* killed process reports null (-1 here), any other process 0 or 1.
CloseCodes(p) ==
    IF procs[p].state = "errored" THEN {-2}
    ELSE IF procs[p].killed THEN {-1}
    ELSE {0, 1}

\* ---- PthEditorProvider (part_000, lines 215-611) --------------------------
\* computeCacheKey (lines 541-549): the MD5 digest of path, modification time,
\* size and mode; the digest is taken to be free of collisions and the
\* checkpoint files to be there, so that statSync succeeds.
computeCacheKey(s, file, local) ==
    [ file |-> file, mtime |-> s.fileStat[file], local |-> local ]

\* getCachePath (lines 554-562)
getCachePath(hash) == [ dir |-> "cache", name |-> hash ]

\* fs.existsSync(cachePath)
CacheExists(s, cachePath) == cachePath \in DOMAIN s.cacheStore

\* saveToCache (lines 567-584)
saveToCache(s, resultData) ==
    [s EXCEPT !.cacheStore =
        MapSet(@, s.cacheFilePath,
               [ source_hash |-> s.cacheHash, file_path |-> s.filePath,
                 data |-> resultData ])]

\* findNodeByPath (lines 589-610) for a path of one key: is there a node?
findNodeByPath(root, key) == key \in DOMAIN root.stats

\* this.cacheJson = <another object>: the nodes that suspended inspects hold
\* belong to the object this.cacheJson referred to before.
AssignCacheJson(s, tree) ==
    [s EXCEPT !.cacheJson = tree,
              !.awaiting = [i \in DOMAIN @ |-> [@[i] EXCEPT !.attached = FALSE]]]

\* The promise sendRequest will return (lines 516-520, 541, 582).
PromiseFor(s, endpoint, payload) ==
    LET requestKey == RequestKey(endpoint, getFileKey(payload.file_path),
                                 payload.force_local)
    IN IF endpoint = "/load" /\ requestKey \in DOMAIN s.loadingPromises
       THEN s.loadingPromises[requestKey]
       ELSE Len(s.promises) + 1

\* await sendRequest(endpoint, payload) in a provider method: the method is
\* suspended holding its locals; found and attached speak of targetNode.
Await(s, kind, doc, key, found, endpoint, payload) ==
    LET entry == [ kind |-> kind, doc |-> doc, key |-> key, found |-> found,
                   attached |-> found, file |-> payload.file_path,
                   local |-> payload.force_local,
                   promise |-> PromiseFor(s, endpoint, payload) ]
    IN SendRequest([s EXCEPT !.awaiting = Append(@, entry)], endpoint, payload)

\* loadPthContent as it was before the cache: every load asks the worker.
loadPthContentNoCache(s, doc) ==
    LET hash == computeCacheKey(s, s.filePath, s.forceLocal)
        s1 == [s EXCEPT !.panels[doc] = View("loading", NoTree, << >>),
                        !.cacheHash = hash,
                        !.cacheFilePath = getCachePath(hash)]
    IN Await(s1, "load", doc, "", FALSE, "/load",
             [file_path |-> s1.filePath, force_local |-> s1.forceLocal])

\* loadPthContent up to its await (lines 310-364)
loadPthContent(s, doc) ==
    LET hash == computeCacheKey(s, s.filePath, s.forceLocal)
        s1 == [s EXCEPT !.panels[doc] = View("loading", NoTree, << >>),
                        !.cacheHash = hash,
                        !.cacheFilePath = getCachePath(hash)]
    IN IF CacheExists(s1, s1.cacheFilePath)
       THEN LET s2 == AssignCacheJson(s1, s1.cacheStore[s1.cacheFilePath].data)
            IN [s2 EXCEPT !.panels[doc] = View("tree", s2.cacheJson, << >>)]
       ELSE Await(s1, "load", doc, "", FALSE, "/load",
                  [file_path |-> s1.filePath, force_local |-> s1.forceLocal])

\* errorMsg.includes("Timeout") (line 415)
IncludesTimeout(errorMsg) ==
    errorMsg \in {"Timeout waiting for existing server start", "Request Timeout"}

\* The catch block of loadPthContent (lines 408-451)
LoadFailed(s, a) ==
    LET errorMsg == s.promises[a.promise].value
        s1 == IF IncludesTimeout(errorMsg)
              THEN [s EXCEPT !.panels[a.doc] = View("timeout", NoTree, << >>)]
              ELSE s
    IN [s1 EXCEPT !.panels[a.doc] = View("envError", NoTree, getInterpreterPath(s1))]

\* loadPthContent from its await on (lines 365-451)
LoadResume(s, a) ==
    LET p == s.promises[a.promise]
    IN IF p.state = "rejected" THEN LoadFailed(s, a)
       ELSE IF p.value = "apperror"
       THEN [s EXCEPT !.panels[a.doc] = View("parseError", NoTree, << >>)]
       ELSE LET result == TreeOf(a.file, a.local, s.fileStat[a.file])
                s1 == AssignCacheJson(s, result)
                s2 == saveToCache(s1, s1.cacheJson)
            IN [s2 EXCEPT !.panels[a.doc] = View("tree", s2.cacheJson, << >>)]

\* inspectTensorData up to its await (lines 459-490)
inspectTensorData(s, doc, key) ==
    LET targetNode == findNodeByPath(s.cacheJson, key)
    IN IF targetNode /\ s.cacheJson.stats[key] # NoStats
       THEN [s EXCEPT !.posted =
                Append(@, Message(doc, key, s.cacheJson.stats[key], ""))]
       ELSE Await(s, "inspect", doc, key, targetNode, "/inspect",
                  [file_path |-> doc, force_local |-> FALSE])

\* inspectTensorData from its await on (lines 491-529)
InspectResume(s, a) ==
    LET p == s.promises[a.promise]
        result == StatsOf(a.file, a.key)
    IN IF p.state = "rejected"
       THEN [s EXCEPT !.posted = Append(@, Message(a.doc, a.key, NoStats, "Server Error"))]
       ELSE IF p.value = "apperror"
       THEN [s EXCEPT !.posted = Append(@, Message(a.doc, a.key, NoStats, "apperror"))]
       ELSE LET s1 == [s EXCEPT !.posted = Append(@, Message(a.doc, a.key, result, ""))]
                s2 == IF a.attached
                      THEN [s1 EXCEPT !.cacheJson.stats[a.key] = result] ELSE s1
            IN IF a.found /\ s1.cacheFilePath # NoCachePath
               THEN saveToCache(s2, s2.cacheJson)
               ELSE s1

\* The 'reload' handler up to its await (lines 279-295)
reload(s, doc) ==
    LET s1 == IF CacheExists(s, s.cacheFilePath)
              THEN [s EXCEPT !.cacheStore = MapDelete(@, s.cacheFilePath)]
              ELSE s
    IN Await(s1, "reload", doc, "", FALSE, "/release",
             [file_path |-> s1.filePath, force_local |-> FALSE])

\* The 'reload' handler from its await on (lines 296-302)
ReloadResume(s, a) == loadPthContent(AssignCacheJson(s, NoTree), a.doc)

\* The suspended calls whose promise has been settled.
Settled(s) ==
    { i \in DOMAIN s.awaiting :
        /\ s.awaiting[i].promise \in DOMAIN s.promises
        /\ s.promises[s.awaiting[i].promise].state # "pending" }

RECURSIVE Resume(_)
Resume(s) ==
    IF Settled(s) = {} THEN s
    ELSE LET i == CHOOSE x \in Settled(s) : \A y \in Settled(s) : x <= y
             a == s.awaiting[i]
             s1 == [s EXCEPT !.awaiting = QueueSplice(@, i)]
         IN Resume(CASE a.kind = "load" -> LoadResume(s1, a)
                     [] a.kind = "inspect" -> InspectResume(s1, a)
                     [] a.kind = "reload" -> ReloadResume(s1, a))

\* The continuations whose promise is settled run first; then the run whose
\* ensureServerStarted threw (line 438) reaches its catch block, and so on
\* until no microtask is left.
Thrown(s) == { e \in s.running : e.pc = "thrown" }

Catch(s, e) ==
    Complete([s EXCEPT !.running = @ \ {e}], e.task, "rejected",
             "Python Interpreter not found")

SettleThrown(s) ==
    IF Thrown(s) = {} THEN s ELSE Settle(Catch(s, CHOOSE e \in Thrown(s) : TRUE))

Settle(s) == SettleThrown(Resume(s))

\* ---- actions --------------------------------------------------------------
Send(endpoint, filePath, forceLocal) ==
    /\ nCalls < MaxRequests /\ nCalls + nSwitches < MaxCalls
    /\ endpoint = "/load" \/ ~forceLocal
    /\ Apply(SendRequest(St, endpoint,
                         [file_path |-> filePath, force_local |-> forceLocal]))

Switch(newPath) ==
    /\ nSwitches < MaxSwitches /\ nCalls + nSwitches < MaxCalls
    /\ Apply(ChangePythonInterpreter(St, newPath))

\* getPythonInterpreterPath(undefined) returns (line 426), then lines 429-452.
PathResolved(e, pythonPath) ==
    /\ e \in running /\ e.pc = "getPath"
    /\ LET r == SpawnWorker([St EXCEPT !.running = @ \ {e},
                                      !.currentPythonPath = pythonPath])
       IN Apply(IF r.outcome = "throw"
                THEN Complete(r.st, e.task, "rejected", "Python Interpreter not found")
                ELSE [r.st EXCEPT !.running = @ \cup
                                     {Exec(e.task, "awaitStart", r.value, Null)}])

\* getPythonInterpreterPath rejects (extension.activate() of the Python
\* extension failed): line 426 throws with isStarting left set.
PathRejected(e) ==
    /\ e \in running /\ e.pc = "getPath"
    /\ faults < MaxFaults
    /\ Apply(Complete([St EXCEPT !.running = @ \ {e}, !.faults = @ + 1],
                      e.task, "rejected", "activate failed"))

\* The setInterval of lines 408-419; the count of 100 ms ticks is abstracted:
\* a tick that sees a port resolves, and the ticks that see none end in the
\* time-out.
PollTimer(e) ==
    /\ e \in running /\ e.pc = "polling"
    /\ Apply(IF Truthy(port)
             THEN DoHttpRequest([St EXCEPT !.running = @ \ {e}], e.task, port)
             ELSE Complete([St EXCEPT !.running = @ \ {e}], e.task, "rejected",
                           "Timeout waiting for existing server start"))

Stdout(p, chunk) ==
    /\ p \in DOMAIN procs /\ procs[p].state = "starting"
    /\ LET noisy == ParseInt(Split(chunk), 2, p) = NaN
       IN /\ ~noisy \/ faults < MaxFaults
          /\ Apply(StdoutHandler([St EXCEPT !.procs[p].state = "ready",
                                            !.faults = IF noisy THEN @ + 1 ELSE @],
                                 p, chunk))

Stderr(p) ==
    /\ p \in DOMAIN procs /\ procs[p].state = "starting" /\ ~procs[p].stderr
    /\ procs' = [procs EXCEPT ![p].stderr = TRUE]
    /\ lastCall' = NoCall
    /\ lastExit' = NoExit
    /\ UNCHANGED << serverProcess, port, isStarting, isProcessingQueue,
                    currentPythonPath, pendingPythonPath, requestQueue,
                    loadingPromises, running, promises, nCalls, started,
                    superseded, nSwitches, lastRequested, restarts, faults,
                    deferredLoads, editorFilePath, editorForceLocal, cacheJson,
                    cacheFilePath, cacheHash, cacheStore, fileStat, panels,
                    awaiting, nUser >>
    /\ posted' = << >>

\* The spawn failed (ENOENT, EACCES): 'error' is emitted for a process that
\* never ran.
SpawnError(p) ==
    /\ p \in DOMAIN procs /\ procs[p].state = "starting"
    /\ ~procs[p].stderr /\ ~procs[p].killed
    /\ faults < MaxFaults
    /\ Apply(ErrorHandler([St EXCEPT !.procs[p].state = "errored",
                                     !.faults = @ + 1], p))

Close(p, code) ==
    /\ p \in DOMAIN procs /\ procs[p].state # "closed"
    /\ code \in CloseCodes(p)
    /\ procs[p].killed \/ procs[p].state = "errored" \/ faults < MaxFaults
    /\ LET crash == ~procs[p].killed /\ procs[p].state # "errored"
           w == Waiting(St, p)
           exit == [ proc |-> p, code |-> code, state |-> procs[p].state,
                     stderr |-> procs[p].stderr,
                     waiter |-> IF w = {} THEN 0 ELSE (CHOOSE e \in w : TRUE).task.id ]
           r == CloseHandler([St EXCEPT !.faults = IF crash THEN @ + 1 ELSE @,
                                        !.lastExit = exit], p, code)
       IN Apply([r EXCEPT !.procs[p] = Closed])

HttpResponse(e, resp) ==
    /\ e \in running /\ e.pc = "http"
    /\ Listening(e.port)
    /\ resp = "ok" \/ faults < MaxFaults
    /\ Apply(ResponseHandler([St EXCEPT !.faults = IF resp = "ok" THEN @ ELSE @ + 1],
                             e, resp))

\* req 'error' (line 651): nothing listens on the port (any more).
HttpError(e) ==
    /\ e \in running /\ e.pc = "http"
    /\ ~Listening(e.port)
    /\ Apply(Complete([St EXCEPT !.running = @ \ {e}], e.task, "rejected",
                      "connect error"))

\* ---- the editor's commands ---------------------------------------------------
\* resolveCustomEditor (lines 248-307): a document is opened.
Open(doc) ==
    /\ nUser < MaxUserActions
    /\ panels[doc].kind = "none"
    /\ Apply(loadPthContent([St EXCEPT !.filePath = doc, !.forceLocal = FALSE,
                                       !.nUser = @ + 1], doc))

\* 'switchMode' from the tree page of a panel (lines 264-267); the button of
\* the page sends the mode the page is not in (lines 631, 660).
SwitchMode(doc, value) ==
    /\ nUser < MaxUserActions
    /\ panels[doc].kind = "tree"
    /\ value = ~panels[doc].tree.local
    /\ Apply(loadPthContent([St EXCEPT !.forceLocal = value, !.nUser = @ + 1], doc))

\* 'inspect' from the tree page of a panel (lines 269-273), for a tensor the
\* page shows.
Inspect(doc, key) ==
    /\ nUser < MaxUserActions
    /\ panels[doc].kind = "tree"
    /\ key \in DOMAIN panels[doc].tree.stats
    /\ Apply(inspectTensorData([St EXCEPT !.nUser = @ + 1], doc, key))

\* 'reload' from the tree page of a panel (lines 276-303)
Reload(doc) ==
    /\ nUser < MaxUserActions
    /\ panels[doc].kind = "tree"
    /\ Apply(reload([St EXCEPT !.nUser = @ + 1], doc))

\* The checkpoint file is rewritten: its mtimeMs and size change.
Touch(file) ==
    /\ nUser < MaxUserActions
    /\ fileStat[file] < MaxMtime
    /\ Apply([St EXCEPT !.fileStat[file] = @ + 1, !.nUser = @ + 1])

\* onDidChangePythonInterpreter's callback (extension.ts, lines 201-205)
InterpreterChanged(newPath) ==
    /\ nUser < MaxUserActions
    /\ Apply(ChangePythonInterpreter([St EXCEPT !.nUser = @ + 1], newPath))

Next ==
    \/ \E ep \in Endpoints, f \in FilePaths, fl \in BOOLEAN : Send(ep, f, fl)
    \/ \E np \in PythonPaths : Switch(np)
    \/ \E e \in running, pp \in {PythonFallback} : PathResolved(e, pp)
    \/ \E e \in running : PathRejected(e)
    \/ \E e \in running : PollTimer(e)
    \/ \E p \in DOMAIN procs, ch \in Chunks : Stdout(p, ch)
    \/ \E p \in DOMAIN procs : Stderr(p)
    \/ \E p \in DOMAIN procs : SpawnError(p)
    \/ \E p \in DOMAIN procs, code \in {-2, -1, 0, 1} : Close(p, code)
    \/ \E e \in running, resp \in Responses : HttpResponse(e, resp)
    \/ \E e \in running : HttpError(e)

Spec == Init /\ [][Next]_vars

\* What the runtime guarantees by itself: an interval timer fires (line 408)
\* and a connection to a port nobody listens on is refused (line 651).  The
\* worker and the Python extension owe nothing.
Fairness ==
    /\ WF_vars(\E e \in running : PollTimer(e))
    /\ WF_vars(\E e \in running : HttpError(e))

LiveSpec == Spec /\ Fairness

\* The paths callers can hand to sendRequest where file names are case
\* sensitive: "A.pth" names another file than "a.pth".
CasePaths == FilePaths \cup { <<"A.pth">> }

\* The manager under one environment, with requests for the files of
\* CasePaths.
CaseNext ==
    \/ \E ep \in Endpoints, f \in CasePaths, fl \in BOOLEAN : Send(ep, f, fl)
    \/ \E e \in running, pp \in {PythonFallback} : PathResolved(e, pp)
    \/ \E e \in running : PathRejected(e)
    \/ \E e \in running : PollTimer(e)
    \/ \E p \in DOMAIN procs, ch \in Chunks : Stdout(p, ch)
    \/ \E p \in DOMAIN procs : Stderr(p)
    \/ \E p \in DOMAIN procs : SpawnError(p)
    \/ \E p \in DOMAIN procs, code \in {-2, -1, 0, 1} : Close(p, code)
    \/ \E e \in running, resp \in Responses : HttpResponse(e, resp)
    \/ \E e \in running : HttpError(e)

CaseSpec == Init /\ [][CaseNext]_vars

\* The manager driven by the editor provider instead of by bare calls.
EditorNext ==
    \/ \E doc \in FilePaths : Open(doc)
    \/ \E doc \in FilePaths, value \in BOOLEAN : SwitchMode(doc, value)
    \/ \E doc \in FilePaths, key \in {"k1", "k2"} : Inspect(doc, key)
    \/ \E doc \in FilePaths : Reload(doc)
    \/ \E file \in FilePaths : Touch(file)
    \/ \E np \in PythonPaths : InterpreterChanged(np)
    \/ \E e \in running, pp \in {PythonFallback} : PathResolved(e, pp)
    \/ \E e \in running : PathRejected(e)
    \/ \E e \in running : PollTimer(e)
    \/ \E p \in DOMAIN procs, ch \in Chunks : Stdout(p, ch)
    \/ \E p \in DOMAIN procs : Stderr(p)
    \/ \E p \in DOMAIN procs : SpawnError(p)
    \/ \E p \in DOMAIN procs, code \in {-2, -1, 0, 1} : Close(p, code)
    \/ \E e \in running, resp \in Responses : HttpResponse(e, resp)
    \/ \E e \in running : HttpError(e)

EditorSpec == Init /\ [][EditorNext]_vars

\* ---- what the properties speak about --------------------------------------
\* The tasks that are queued or whose run has not returned.
PendingTasks ==
    { requestQueue[i] : i \in DOMAIN requestQueue } \cup { e.task : e \in running }

\* The child processes that have neither exited nor failed to spawn.
Live == { p \in DOMAIN procs : procs[p].state \in {"starting", "ready"} }

\* This step is a sendRequest('/load') call.
LoadCalled == nCalls' = nCalls + 1 /\ lastCall'.call.endpoint = "/load"

\* The pending load tasks of the file (and, for SameLoads, the mode) of the
\* call this step makes.
SameFileLoads ==
    { t \in PendingTasks : /\ t.endpoint = "/load"
                           /\ t.fileKey = getFileKey(lastCall'.call.file_path) }
SameLoads ==
    { t \in SameFileLoads : t.payload.force_local = lastCall'.call.force_local }

\* ---- C1 -------------------------------------------------------------------
\* C1: in every reachable state at most one Task's run is in progress.
C1_OneRunAtATime == Cardinality(running) <= 1

C1_Witness ==
    /\ Cardinality(running) = 1
    /\ Len(requestQueue) >= 2
    /\ pendingPythonPath # NullPath

\* ---- C2 -------------------------------------------------------------------
\* C2: Tasks run in submission order (task ids are given in the order of the
\* sendRequest calls): the runs begin in increasing order of id, every run but
\* the latest has returned, and the queue holds the waiting tasks in
\* increasing order of id, all later than every task already begun; taking a
\* cancelled release out of the queue keeps that order.
C2_SubmissionOrder ==
    /\ \A i, j \in DOMAIN started : i < j => started[i] < started[j]
    /\ \A i \in DOMAIN started :
          i < Len(started) => \A e \in running : e.task.id # started[i]
    /\ \A i, j \in DOMAIN requestQueue :
          i < j => requestQueue[i].id < requestQueue[j].id
    /\ \A i \in DOMAIN requestQueue, j \in DOMAIN started :
          started[j] < requestQueue[i].id

\* Three tasks have run in order after a release was cancelled between them.
C2_Witness ==
    /\ Len(started) = 3
    /\ superseded # {}
    /\ \E r \in superseded : started[1] < r /\ r < started[3]

\* ---- C3 -------------------------------------------------------------------
\* C3: a sendRequest('/load') call made while a load Task of the same file
\* and mode has not completed creates no Task and returns that Task's promise,
\* in every interleaving, worker exits included.
C3_ConcurrentLoadsShareOneTask ==
    [][ LoadCalled =>
          \A t \in SameLoads : /\ ~lastCall'.created
                               /\ lastCall'.promise = t.id ]_vars

\* ---- C4 -------------------------------------------------------------------
\* C4: every release Task of file k that was queued when a load of k was
\* submitted is out of the queue and is never run.
C4_SupersededReleasesNeverRun ==
    \A r \in superseded :
        /\ \A i \in DOMAIN started : started[i] # r
        /\ \A i \in DOMAIN requestQueue : requestQueue[i].id # r

\* ---- C5 -------------------------------------------------------------------
\* C5: a load call is never handed the promise of a pending load of the same
\* file in the other mode; when only loads of the other mode are pending for
\* its file, the call creates and enqueues a Task of its own.
C5_ModesDoNotSharePromise ==
    [][ LoadCalled =>
          /\ \A t \in SameFileLoads \ SameLoads : lastCall'.promise # t.id
          /\ ~lastCall'.created => \E t \in SameLoads : lastCall'.promise = t.id
          /\ (SameLoads = {} /\ SameFileLoads # {}) =>
                /\ lastCall'.created
                /\ Len(promises') = Len(promises) + 1
                /\ \E u \in PendingTasks' :
                      /\ u.id = lastCall'.promise
                      /\ u.payload.force_local = lastCall'.call.force_local ]_vars

\* A load was just submitted while a load of the same file in the other mode
\* is pending, and both Tasks are pending now.
C5_Witness ==
    /\ lastCall.call.endpoint = "/load"
    /\ lastCall.created
    /\ \E t, u \in PendingTasks :
          /\ u.id = lastCall.promise
          /\ t.endpoint = "/load" /\ t.fileKey = u.fileKey /\ t.id < u.id
          /\ t.payload.force_local # u.payload.force_local

\* ---- C6 -------------------------------------------------------------------
\* C6: a changePythonInterpreter call made while a Task is running or queued
\* kills nothing in that step; only restartServer kills; and every
\* restartServer finds no running Task and an empty queue.
C6_KillOnlyWhenIdle ==
    /\ [](restarts.last.queueLen = 0 /\ restarts.last.nRunning = 0)
    /\ [][ /\ (nSwitches' = nSwitches + 1 /\ (running # {} \/ requestQueue # << >>))
              => (procs' = procs /\ serverProcess' = serverProcess)
           /\ (\E p \in DOMAIN procs : procs'[p].killed /\ ~procs[p].killed)
              => restarts'.n = restarts.n + 1 ]_vars

\* A switch was deferred while a Task runs on a worker that is still held
\* and has not been killed.
C6_Witness ==
    /\ pendingPythonPath # NullPath
    /\ running # {}
    /\ serverProcess # Null
    /\ procs[serverProcess].state = "ready"
    /\ ~procs[serverProcess].killed

\* ---- C7 -------------------------------------------------------------------
\* C7: every restart targets the environment of the most recent
\* changePythonInterpreter call: an earlier pending target is superseded by
\* a later call, also when the later call names the environment the running
\* worker was started with.
C7_RestartTargetsLatestRequest ==
    [][ restarts'.n # restarts.n =>
          Normalize(currentPythonPath') = Normalize(lastRequested') ]_vars

\* ---- C8 -------------------------------------------------------------------
\* C8: at most one worker process is live at any time.
C8_AtMostOneLiveWorker == Cardinality(Live) <= 1

\* ---- C9 -------------------------------------------------------------------
\* C9: a process is spawned only by a running Task, which then waits for its
\* start; no changePythonInterpreter call and no restartServer spawns one;
\* without a sendRequest call there is no process.
C9_SpawnOnlyInsideTask ==
    /\ [](nCalls = 0 => procs = << >>)
    /\ [][ /\ Len(procs') # Len(procs) =>
                /\ Len(procs') = Len(procs) + 1
                /\ \E e \in running' : e.pc = "awaitStart" /\ e.proc = Len(procs')
           /\ (nSwitches' # nSwitches \/ restarts'.n # restarts.n) =>
                Len(procs') = Len(procs) ]_vars

\* A Task waits for the worker it spawned after an earlier restart.
C9_Witness ==
    /\ restarts.n >= 2
    /\ \E e \in running : e.pc = "awaitStart" /\ procs[e.proc].state = "starting"

\* ---- C10 ------------------------------------------------------------------
\* C10: changePythonInterpreter(e) with e normalising to the recorded
\* environment changes nothing: no pending target, no kill, the queue and
\* loadingPromises as they were.
C10_SameEnvironmentIsNoOp ==
    [][ ( /\ nSwitches' = nSwitches + 1
          /\ currentPythonPath # NullPath
          /\ Normalize(lastRequested') = Normalize(currentPythonPath) )
        => /\ pendingPythonPath' = pendingPythonPath
           /\ procs' = procs
           /\ serverProcess' = serverProcess
           /\ requestQueue' = requestQueue
           /\ loadingPromises' = loadingPromises ]_vars

\* ---- C11 ------------------------------------------------------------------
\* C11: a Task failure never stops later work: when a step rejects the
\* promise of a Task, every Task that was queued behind it is still queued
\* afterwards or has begun to run.
C11_FailureKeepsQueuedTasks ==
    [][ (\E i \in DOMAIN promises :
            promises[i].state = "pending" /\ promises'[i].state = "rejected")
        => \A j \in DOMAIN requestQueue :
              \/ \E k \in DOMAIN requestQueue' :
                    requestQueue'[k].id = requestQueue[j].id
              \/ \E k \in DOMAIN started' : started'[k] = requestQueue[j].id ]_vars

\* ---- C12 ------------------------------------------------------------------
\* C12: after a worker has exited with a non-zero code before its marker was
\* seen, the Task that waited for the start is rejected with the standard
\* error text gathered (the exit message when there is none), and the manager
\* holds no process, no port and is not starting; a Task submitted to an idle
\* manager that holds no process then goes to a fresh spawn (a process of the
\* recorded environment, or the interpreter lookup or the not-found error
\* that precede the spawn).
C12_FailedStartClearsState ==
    /\ []( (lastExit.waiter # 0 /\ lastExit.code # 0) =>
             /\ promises[lastExit.waiter].state = "rejected"
             /\ promises[lastExit.waiter].value =
                   IF lastExit.stderr THEN "startupStderr"
                   ELSE "Process exited with code"
             /\ serverProcess = Null /\ port = Null /\ ~isStarting )
    /\ [][ ( /\ serverProcess = Null /\ ~isStarting /\ ~isProcessingQueue
             /\ nCalls' = nCalls + 1 /\ lastCall'.created )
           => IF currentPythonPath = NullPath
              THEN \E e \in running' :
                      e.task.id = lastCall'.promise /\ e.pc = "getPath"
              ELSE IF ExistsSync(currentPythonPath) \/ currentPythonPath = PythonFallback
              THEN /\ Len(procs') = Len(procs) + 1
                   /\ serverProcess' = Len(procs')
                   /\ procs'[Len(procs')].env = currentPythonPath
                   /\ procs'[Len(procs')].state = "starting"
                   /\ \E e \in running' : /\ e.task.id = lastCall'.promise
                                          /\ e.pc = "awaitStart"
                                          /\ e.proc = Len(procs')
              ELSE promises'[lastCall'.promise].state = "rejected" ]_vars

\* The first worker failed to start with text on standard error, and the
\* next Task waits for a second, fresh worker.
C12_Witness ==
    /\ Len(procs) = 2
    /\ procs[1].state = "closed"
    /\ \E i \in DOMAIN promises :
          promises[i].state = "rejected" /\ promises[i].value = "startupStderr"
    /\ \E e \in running : e.pc = "awaitStart" /\ e.proc = 2
    /\ procs[2].state = "starting"

\* ---- C13 ------------------------------------------------------------------
\* C13: whatever its exit code, a worker exit before the marker was seen
\* fails the start the Task waits for: after the 'close' of a process whose
\* start a Task awaited, that Task's promise is rejected.
C13_AnyEarlyExitFailsTheStart ==
    lastExit.waiter # 0 => promises[lastExit.waiter].state = "rejected"

\* A running Task waits inside ensureServerStarted for a worker to start:
\* for the worker it spawned, or, polling, for a start already in progress.
StartPending == \E e \in running : e.pc \in {"awaitStart", "polling"}

\* A running Task waits for the response to its HTTP request.
RequestPending == \E e \in running : e.pc = "http"

\* ---- C14 ------------------------------------------------------------------
\* C14: worker startup is bounded: a Task that waits for a worker start
\* stops waiting (with a port or a time-out error), even when the worker
\* neither prints its marker nor exits.
C14_StartupIsBounded == StartPending ~> ~StartPending

\* ---- C15 ------------------------------------------------------------------
\* C15: every transport call is bounded: a Task that waits for an HTTP
\* response stops waiting (with a response or a request time-out), even when
\* the worker accepted the request and never answers.
C15_RequestIsBounded == RequestPending ~> ~RequestPending

\* ---- C16 ------------------------------------------------------------------
\* C16: after the exit of a worker that had started, the manager holds no
\* process and no port; a Task that begins while no process is held spawns a
\* new worker of the recorded environment and waits for it; and every HTTP
\* request that begins goes to the port cached at that moment, never to a
\* cleared one.
C16_ExitClearsAndNextTaskRespawns ==
    /\ []( (lastExit.proc # 0 /\ lastExit.state = "ready") =>
             (serverProcess = Null /\ port = Null /\ ~isStarting) )
    /\ [][ /\ ( /\ Len(started') > Len(started)
                /\ serverProcess = Null /\ ~isStarting
                /\ currentPythonPath # NullPath
                /\ ExistsSync(currentPythonPath) \/ currentPythonPath = PythonFallback )
              => /\ Len(procs') = Len(procs) + 1
                 /\ procs'[Len(procs')].state = "starting"
                 /\ procs'[Len(procs')].env = currentPythonPath
                 /\ \E e \in running' : /\ e.task.id = started'[Len(started')]
                                        /\ e.pc = "awaitStart"
                                        /\ e.proc = Len(procs')
           /\ \A e \in running' \ running :
                 e.pc = "http" => (e.port = port' /\ port' # Null) ]_vars

\* The first worker served a request and then exited without any restart;
\* the next Task waits for the second worker it spawned.
C16_Witness ==
    /\ restarts.n = 0
    /\ Len(procs) = 2
    /\ procs[1].state = "closed"
    /\ procs[2].state = "starting"
    /\ \E i \in DOMAIN promises : promises[i].state = "resolved"
    /\ \E e \in running : e.pc = "awaitStart" /\ e.proc = 2

\* ---- C17 ------------------------------------------------------------------
\* This step settles the promise of load Task id, which was queued or running
\* when the switch now pending was deferred.
DeferredLoadSettles(id) ==
    /\ id \in deferredLoads
    /\ promises[id].state = "pending"
    /\ promises'[id].state # "pending"

\* C17: when a load Task that was pending when the switch was deferred
\* completes, the worker is terminated and the environment becomes the
\* pending target, so that the next Task starts against it.  Read in the
\* claim's favour: Tasks already queued behind the load may run first (the
\* switch then stays pending), and "terminated" asks only that the worker
\* spawned last, if still alive after the switch, has been sent kill().
C17_SwitchAfterPendingLoad ==
    [][ \A id \in deferredLoads :
          DeferredLoadSettles(id) =>
            \/ /\ restarts'.n = restarts.n + 1
               /\ \A p \in DOMAIN procs' :
                     (p = Len(procs') /\ procs'[p].state \in {"starting", "ready"})
                        => procs'[p].killed
               /\ currentPythonPath' = pendingPythonPath
               /\ pendingPythonPath' = NullPath
            \/ /\ requestQueue # << >>
               /\ started' = Append(started, Head(requestQueue).id)
               /\ restarts' = restarts
               /\ pendingPythonPath' = pendingPythonPath ]_vars

\* ---- C18 ------------------------------------------------------------------
\* C18: when the drain loop ends with a switch pending, then in the state in
\* which the scheduler is idle again the manager holds no worker handle and
\* no port, the environment is the pending target and no target is pending.
C18_SwitchAppliedAtIdlePoint ==
    [][ (pendingPythonPath # NullPath /\ isProcessingQueue /\ ~isProcessingQueue')
        => /\ serverProcess' = Null
           /\ port' = Null
           /\ currentPythonPath' = pendingPythonPath
           /\ pendingPythonPath' = NullPath ]_vars

\* ---- C19 ------------------------------------------------------------------
\* C19: every entry of loadingPromises belongs to a load Task of that
\* requestKey that is queued or running and whose promise is pending; and an
\* entry goes away (or is replaced) only in a step in which the Task that
\* created it completes.
C19_EntriesFollowTheirTasks ==
    /\ [](\A k \in DOMAIN loadingPromises :
             /\ promises[loadingPromises[k]].state = "pending"
             /\ \E t \in PendingTasks : /\ t.id = loadingPromises[k]
                                        /\ t.endpoint = "/load"
                                        /\ t.requestKey = k)
    /\ [][ \A k \in DOMAIN loadingPromises :
              (k \notin DOMAIN loadingPromises' \/ loadingPromises'[k] # loadingPromises[k])
                 => promises'[loadingPromises[k]].state # "pending" ]_vars

\* ---- C20 ------------------------------------------------------------------
\* C20: no Task is orphaned by an environment switch without being rejected:
\* in the step that delivers the exit of the worker a switch has killed,
\* every Task that was queued either stays queued, begins to run, or has its
\* promise settled.
C20_SwitchRejectsWhatItDrops ==
    [][ (lastExit'.proc # 0 /\ procs[lastExit'.proc].killed)
        => \A j \in DOMAIN requestQueue :
              \/ promises'[requestQueue[j].id].state # "pending"
              \/ \E k \in DOMAIN requestQueue' :
                    requestQueue'[k].id = requestQueue[j].id
              \/ \E k \in DOMAIN started' : started'[k] = requestQueue[j].id ]_vars

\* ---- C21 ------------------------------------------------------------------
\* C21: a changePythonInterpreter call for another environment made while
\* the scheduler is idle takes effect in that call: afterwards no worker
\* handle and no port is held, the worker that was held has been sent kill(),
\* getInterpreterPath returns the new environment, no target is pending, and
\* no process was spawned.
C21_IdleSwitchIsImmediate ==
    [][ ( /\ nSwitches' = nSwitches + 1
          /\ ~isProcessingQueue /\ requestQueue = << >>
          /\ Normalize(lastRequested') # Normalize(currentPythonPath) )
        => /\ serverProcess' = Null
           /\ port' = Null
           /\ \A p \in DOMAIN procs :
                 (p = serverProcess /\ procs[p].state \in {"starting", "ready"})
                    => procs'[p].killed
           /\ getInterpreterPath([currentPythonPath |-> currentPythonPath'])
                 = lastRequested'
           /\ pendingPythonPath' = NullPath
           /\ Len(procs') = Len(procs) ]_vars

\* ---- C29 ------------------------------------------------------------------
\* C29: whatever text precedes the marker in the chunk that carries it, the
\* port recorded by the stdout handler, and the port ensureServerStarted
\* hands to the task that waited for the start, is the integer port the
\* worker printed after the marker.
C29_HandshakeYieldsThePort ==
    /\ port # NaN
    /\ \A e \in running : e.pc = "http" => e.port # NaN

\* ---- C28 ------------------------------------------------------------------
\* C28: in every reachable state and for every environment, restartServer
\* applied twice in a row leaves the manager as one application does, and the
\* second application finds no worker handle, so it kills nothing.
C28_RestartIsIdempotent ==
    \A pythonPath \in PythonPaths :
        LET once == RestartServer(St, pythonPath)
            twice == RestartServer(once, pythonPath)
        IN /\ once.serverProcess = Null
           /\ twice.procs = once.procs
           /\ [twice EXCEPT !.restarts = once.restarts] = once

\* A worker is held, with a port, while tasks are queued: the first
\* application kills and clears.
C28_Witness ==
    /\ serverProcess # Null /\ procs[serverProcess].state = "ready"
    /\ Truthy(port) /\ requestQueue # << >> /\ loadingPromises # << >>
    /\ restarts.n > 0

\* ---- C26 ------------------------------------------------------------------
\* C26: an answer with a status other than 200 rejects the promise of the
\* task that made the call with "Server Error ..."; an answer with status 200
\* whose JSON body holds an error field resolves that promise with the body;
\* no other promise takes either outcome in that step.
C26_ErrorsReachOnlyTheirTask ==
    [][ \A e \in running : \A resp \in {"status500", "apperror"} :
          HttpResponse(e, resp) =>
             /\ promises'[e.task.id] =
                   IF resp = "status500"
                   THEN [state |-> "rejected", value |-> "Server Error"]
                   ELSE [state |-> "resolved", value |-> "apperror"]
             /\ \A id \in DOMAIN promises : id # e.task.id =>
                   \/ promises'[id] = promises[id]
                   \/ promises'[id].value \notin {"Server Error", "apperror"} ]_vars

\* A promise was resolved with a body that holds an error field while
\* another call was still pending.
C26_Witness ==
    \E id, other \in DOMAIN promises :
        /\ promises[id] = [state |-> "resolved", value |-> "apperror"]
        /\ promises[other].state = "pending"

\* ---- C22 ------------------------------------------------------------------
\* C22: when a document is opened or a panel switches mode and the cache
\* file named by the fingerprint of (file, modification time, mode) exists,
\* the panel shows the stored data, this.cacheJson holds it, and no
\* sendRequest call is made: no promise, no task, no change of the store.
C22_CacheHitNeedsNoTask ==
    [][ \A doc \in FilePaths : \A value \in BOOLEAN :
          LET file == IF panels[doc].kind = "none" THEN doc ELSE editorFilePath
              local == IF panels[doc].kind = "none" THEN FALSE ELSE value
              cachePath == getCachePath(computeCacheKey(St, file, local))
          IN ( /\ Open(doc) \/ SwitchMode(doc, value)
               /\ CacheExists(St, cachePath) )
             => /\ panels'[doc] = View("tree", cacheStore[cachePath].data, << >>)
                /\ cacheJson' = cacheStore[cachePath].data
                /\ nCalls' = nCalls
                /\ promises' = promises
                /\ requestQueue' = requestQueue
                /\ running' = running
                /\ cacheStore' = cacheStore ]_vars

\* Three commands were given, two of them loads of one file in its two
\* modes, both stored; the third found its entry and made no call.
C22_Witness ==
    /\ nUser = 3 /\ nCalls = 2 /\ nSwitches = 0
    /\ \E doc \in FilePaths :
          /\ panels[doc].kind = "tree"
          /\ panels[doc].tree = TreeOf(doc, editorForceLocal, 1)
          /\ \A local \in BOOLEAN :
                CacheExists(St, getCachePath(computeCacheKey(St, doc, local)))
    /\ \A f \in FilePaths : fileStat[f] = 1

\* ---- C23 ------------------------------------------------------------------
\* C23: once the data of a file in a mode is stored under the file's current
\* fingerprint, the store holds no entry of that file and mode under an
\* outdated fingerprint.
C23_NoOutdatedEntryRemains ==
    \A file \in FilePaths : \A local \in BOOLEAN :
        CacheExists(St, getCachePath(computeCacheKey(St, file, local)))
           => \A cachePath \in DOMAIN cacheStore :
                 (cachePath.name.file = file /\ cachePath.name.local = local)
                    => cachePath.name.mtime = fileStat[file]

\* ---- C24 ------------------------------------------------------------------
\* C24: an inspect that is answered without a sendRequest call is answered
\* with the statistics stored for the tensor it addresses: the file of the
\* panel and the key of the node.
C24_InspectAnswersFromItsNode ==
    [][ \A doc \in FilePaths : \A key \in {"k1", "k2"} :
          (Inspect(doc, key) /\ nCalls' = nCalls)
             => posted' = << Message(doc, key, StatsOf(doc, key), "") >> ]_vars

\* ---- C25 ------------------------------------------------------------------
\* C25: when the worker answers the inspect of a tensor whose node was found
\* without statistics, a cache entry of the inspected file then holds the
\* returned statistics at that key, and every other node of every entry is
\* as it was.
C25_InspectUpdatesOnlyItsNode ==
    [][ \A i \in DOMAIN awaiting :
          LET a == awaiting[i]
          IN ( /\ a.kind = "inspect" /\ a.found
               /\ promises[a.promise].state = "pending"
               /\ promises'[a.promise] = [state |-> "resolved", value |-> "ok"] )
             => /\ \E p \in DOMAIN cacheStore' :
                      /\ p.name.file = a.doc
                      /\ a.key \in DOMAIN cacheStore'[p].data.stats
                      /\ cacheStore'[p].data.stats[a.key] = StatsOf(a.doc, a.key)
                /\ \A p \in DOMAIN cacheStore' :
                      \A k \in DOMAIN cacheStore'[p].data.stats :
                         (p.name.file # a.doc \/ k # a.key)
                            => /\ p \in DOMAIN cacheStore
                               /\ k \in DOMAIN cacheStore[p].data.stats
                               /\ cacheStore'[p].data.stats[k]
                                     = cacheStore[p].data.stats[k] ]_vars

\* ---- C27 ------------------------------------------------------------------
\* C27: when the start a load task waited for fails, the environment-error
\* page of the panel that asked for the load names the interpreter the failed
\* worker was spawned with.
C27_ErrorPageNamesTheFailedWorker ==
    [][ \A i \in DOMAIN awaiting : \A e \in running :
          LET a == awaiting[i]
          IN ( /\ a.kind = "load"
               /\ e.pc = "awaitStart" /\ e.task.id = a.promise
               /\ promises[a.promise].state = "pending"
               /\ promises'[a.promise].state = "rejected" )
             => panels'[a.doc] = View("envError", NoTree, procs[e.proc].env) ]_vars

\* ---- C30 ------------------------------------------------------------------
\* C30: when a load is rejected with an error whose message holds "Timeout",
\* the panel that asked for it ends up showing the time-out page with its
\* retry button.
C30_TimeoutShowsRetryPage ==
    [][ \A i \in DOMAIN awaiting :
          LET a == awaiting[i]
          IN ( /\ a.kind = "load"
               /\ promises[a.promise].state = "pending"
               /\ promises'[a.promise].state = "rejected"
               /\ IncludesTimeout(promises'[a.promise].value) )
             => panels'[a.doc].kind = "timeout" ]_vars

\* ---- C39 ------------------------------------------------------------------
\* C39: whenever no drain loop is running (isProcessingQueue is false) the
\* request queue is empty.
C39_QueuedTasksHaveADrain ==
    ~isProcessingQueue => requestQueue = << >>

\* The drain loop has ended, with a deferred restart, after tasks had been
\* queued behind a running one.
C39_Witness ==
    /\ ~isProcessingQueue /\ requestQueue = << >>
    /\ Len(started) >= 2 /\ restarts.n > 0 /\ nSwitches > 0
    /\ \E id \in DOMAIN promises : promises[id].state = "resolved"

\* ---- C38 ------------------------------------------------------------------
\* C38: whenever restartServer runs for an environment switch, the request
\* queue and the map of in-flight loads are both empty, so clearing them
\* discards nothing.
C38_RestartDiscardsNothing ==
    [][ restarts'.n # restarts.n =>
          /\ restarts'.last.queueLen = 0
          /\ restarts'.last.nLoading = 0 ]_vars

\* restartServer has run for the environment last asked for, after a Task
\* had settled, with nothing queued and no load in flight.
C38_Witness ==
    /\ restarts.n > 0 /\ restarts.last.nLoading = 0 /\ restarts.last.queueLen = 0
    /\ deferredLoads = {} /\ pendingPythonPath = NullPath
    /\ \E id \in DOMAIN promises : promises[id].state # "pending"
    /\ currentPythonPath = lastRequested /\ nSwitches > 0

\* ---- C37 ------------------------------------------------------------------
\* C37: in every reachable state in which the manager holds a worker handle,
\* that worker was launched with the environment recorded as
\* currentPythonPath, which is the one getInterpreterPath reports.
C37_HeldWorkerRunsCurrentEnvironment ==
    serverProcess # Null =>
        /\ procs[serverProcess].env = currentPythonPath
        /\ getInterpreterPath(St) = procs[serverProcess].env

\* A worker is held under the current environment after an environment
\* switch, while an earlier worker had been launched under another one.
C37_Witness ==
    /\ serverProcess # Null /\ nSwitches > 0 /\ restarts.n > 0
    /\ procs[serverProcess].env = currentPythonPath
    /\ \E p \in DOMAIN procs : p < serverProcess /\ procs[p].env # currentPythonPath

\* ---- C36 ------------------------------------------------------------------
\* C36: a load request is only ever joined to an in-flight load of the same
\* file, and a queued release is only ever cancelled by a load of the same
\* file; paths that differ only in letter case denote different files.
C36_OnlyTheSameFileJoinsOrCancels ==
    [][ LoadCalled =>
          /\ ~lastCall'.created =>
                \A t \in PendingTasks :
                    t.id = lastCall'.promise =>
                        Normalize(t.payload.file_path)
                            = Normalize(lastCall'.call.file_path)
          /\ \A i \in DOMAIN requestQueue :
                requestQueue[i].id \in superseded' \ superseded =>
                    Normalize(requestQueue[i].payload.file_path)
                        = Normalize(lastCall'.call.file_path) ]_vars

\* ---- C32 ------------------------------------------------------------------
\* C32: the 'close' event of a worker that has already been replaced leaves
\* the current generation untouched: the handle and the port of the worker
\* held now stay, isStarting of a start in progress stays set, and the request
\* queue and the map of in-flight loads keep their entries.
C32_StaleExitLeavesCurrentGeneration ==
    [][ ( /\ lastExit'.proc # 0
          /\ serverProcess # Null
          /\ serverProcess # lastExit'.proc )
        => /\ serverProcess' = serverProcess
           /\ port' = port
           /\ isStarting => isStarting'
           /\ requestQueue' = requestQueue
           /\ loadingPromises' = loadingPromises ]_vars

\* ---- C33 ------------------------------------------------------------------
\* The release Task id was taken out of the queue by the splice of a
\* superseding load (lines 522-527): it was queued when a load of its file was
\* submitted, it is queued no more, it was never started, and no 'close' has
\* emptied the queue.
CancelledRelease(id) ==
    /\ id \in superseded
    /\ \A i \in DOMAIN started : started[i] # id
    /\ \A i \in DOMAIN requestQueue : requestQueue[i].id # id
    /\ \A p \in DOMAIN procs : procs[p].state # "closed"

\* C33: the promise returned by sendRequest('/release') eventually settles
\* even when its queued Task is cancelled by a superseding load of the same
\* resource, so a caller that awaits the release proceeds.
C33_CancelledReleaseSettles ==
    \A id \in 1..MaxRequests :
        CancelledRelease(id) ~>
            (id \in DOMAIN promises /\ promises[id].state # "pending")

\* ---- C34 ------------------------------------------------------------------
\* C34: with two documents open in the one shared provider, every load or
\* release request issued on behalf of a panel names that panel's own
\* document, and the tree rendered into a panel is the analysis of its own
\* document.
C34_PanelsServeTheirOwnDocument ==
    /\ \A i \in DOMAIN awaiting :
          awaiting[i].kind \in {"load", "reload"} =>
              awaiting[i].file = awaiting[i].doc
    /\ \A d \in FilePaths :
          panels[d].kind = "tree" => panels[d].tree.file = d

\* ---- C35 ------------------------------------------------------------------
\* C35: every persisted cache entry holds the analysis of exactly the file
\* and the mode its fingerprint was computed from, and an inspect answered
\* from cached statistics is answered from the tree of the inspected file,
\* also while requests of another document are in flight.
C35_CacheEntriesMatchTheirFingerprint ==
    /\ [](\A cachePath \in DOMAIN cacheStore :
             /\ cacheStore[cachePath].data.file = cachePath.name.file
             /\ cacheStore[cachePath].data.local = cachePath.name.local)
    /\ [][ \A doc \in FilePaths : \A key \in {"k1", "k2"} :
             (Inspect(doc, key) /\ nCalls' = nCalls) => cacheJson.file = doc ]_vars

\* ---- C31 ------------------------------------------------------------------
\* C31: the first worker process started after activation is launched with
\* the path activate obtained and passed to changePythonInterpreter, never
\* with the manager's own fallback lookup, also when a document is opened
\* while activate still waits for that path.  The first Switch of a behaviour
\* is activate's call (extension.ts, lines 189-193); a sendRequest before it
\* is a document opened during activation.
C31_FirstWorkerUsesInitialPath ==
    [][ (procs = << >> /\ procs' # << >>)
        => /\ nSwitches > 0
           /\ \A e \in running : e.pc # "getPath"
           /\ procs'[1].env = currentPythonPath ]_vars

====
